---- MODULE Spec2Model ----
(***************************************************************************)
(* Model of AI_logic/respond.py of TinderGPT: the respond_to_girl cycle    *)
(* (Analyzer -> contact exit | Commander -> rules -> Writer with retry ->  *)
(* optional Analyzer refresh -> upsert), the invoke_chain retry wrapper    *)
(* and the module-level optional integrations (webhook, pushbullet).       *)
(*                                                                         *)
(* The language models, the notification services and the record store    *)
(* are the environment: every reply they can give is a nondeterministic   *)
(* choice from a small set, and every call that can raise may raise.       *)
(***************************************************************************)
EXTENDS Integers, Sequences, FiniteSets, TLC

\* ---------------------------------------------------------------- bounds
MaxCycles == 2      \* cycles started in one behaviour

\* ------------------------------------------------------ program constants
MaxAttempts == 3    \* stop_after_attempt(3)
WaitFixed == 90     \* wait_fixed(90)

\* ------------------------------------------------------------- value sets
Procs == {1, 2}
Main == 1
NoProc == 0

Keys == {"Ann_25", "Eve_30"}
NoKey == "-"
\* the messages argument: the recent messages of the conversation
Incoming == {<<"Girl: hi">>}

None == "None"
\* a Python value that is None or a list / dict: <<>> is None, <<v>> is v
Nothing == <<>>
Some(v) == <<v>>
Blank == ""

Summaries == {"S1", "S2"}
FutureSteps == {"step1", "step2", "Step1"}
Contacts == {Blank, "Instagram jane_doe"}

Step1Tags == {"Bond", "Attractive guy image", "Storytelling"}
Step2Tags == {"Suggesting meeting", "Comfort", "Providing meeting details", "Ask for contact"}

\* os.environ['LANGUAGE'], os.environ['CITY']
language == "Polish"
city == "Warsaw"

HookUrls == {None, "http://hook"}
PushKeys == {None, "pbkey"}

\* AnalyzerOutput(BaseModel): summary, future_step, contact, all str
AnalyzerOutput == [summary : Summaries, future_step : FutureSteps, contact : Contacts]

NoOutput == [summary |-> None, future_step |-> None, contact |-> None]

\* CommanderStep1Output: tag lists the step1 shape is asked to choose from
CommanderStep1Output ==
    { <<>>,
      <<"Bond">>,
      <<"Attractive guy image">>,
      <<"Storytelling">>,
      <<"Bond", "Storytelling">>,
      <<"Storytelling", "Bond">>,
      <<"Bond", "Bond">> }

\* CommanderStep2Output: tag lists the step2 shape is asked to choose from
CommanderStep2Output ==
    { <<"Comfort">>,
      <<"Suggesting meeting", "Comfort">>,
      <<"Comfort", "Suggesting meeting">>,
      <<"Providing meeting details", "Ask for contact">> }

\* what json.loads can return for a Writer reply that is a JSON object:
\* WriterOutput has reasoning and message, but writer_chain ends in
\* StrOutputParser, so nothing forces the message field to be there
WriterReplies == { [reasoning |-> "r", message |-> <<"m1">>],
                   [reasoning |-> "r", message |-> <<"m1", "m2">>],
                   [reasoning |-> "r"] }

FailureKinds == {"transport", "format"}

\* ------------------------------------------------------------ pure helpers

\* commander_chain that compares against the wrong literal: never step1
commander_chain_never_step1(future_step) ==
    IF future_step = "step_1" THEN "step1" ELSE "step2"

\* commander_chain with the two branches exchanged
commander_chain_swapped(future_step) ==
    IF future_step = "step1" THEN "step2" ELSE "step1"

\* commander_chain(future_step): which output shape / prompt is used
commander_chain(future_step) ==
    IF future_step = "step1" THEN "step1" ELSE "step2"

ShapeTags(shape) ==
    IF shape = "step1" THEN CommanderStep1Output ELSE CommanderStep2Output

\* query_rule(tag): lookup in the rule base
query_rule(tag) == <<"rule", tag>>

Separator == "\n###\n- "

RECURSIVE Join_reversed(_)
\* a join that builds the block back to front
Join_reversed(parts) ==
    IF Len(parts) = 0 THEN <<>>
    ELSE IF Len(parts) = 1 THEN <<parts[1]>>
    ELSE Join_reversed(Tail(parts)) \o <<Separator, parts[1]>>

RECURSIVE Join(_)
\* "\n###\n- ".join(parts): parts with the separator between neighbours
Join(parts) ==
    IF Len(parts) = 0 THEN <<>>
    ELSE IF Len(parts) = 1 THEN <<parts[1]>>
    ELSE <<parts[1], Separator>> \o Join(Tail(parts))

\* [query_rule(tag) for tag in tags]
RuleList(tags) == [i \in 1..Len(tags) |-> query_rule(tags[i])]

InTags(tag, tags) == \E i \in 1..Len(tags) : tags[i] = tag

\* a refresh test that forgot the 'Attractive guy image' tag
NeedsRefresh_storytelling_only(tags) == InTags("Storytelling", tags)

\* 'Attractive guy image' in tags or 'Storytelling' in tags
NeedsRefresh(tags) ==
    InTags("Attractive guy image", tags) \/ InTags("Storytelling", tags)

\* upsert_record(name_age, summary=None, not_to_rise=False) on the store
upsert_record(st, name_age, summary, not_to_rise) ==
    [st EXCEPT ![name_age] =
        [summary   |-> IF summary = None THEN @.summary ELSE summary,
         suspended |-> IF not_to_rise THEN TRUE ELSE @.suspended]]

\* get_record(name_age)
get_record(st, name_age) == st[name_age].summary

\* ------------------------------------------------------------------ state
VARIABLES
    notifications_hook,  \* os.getenv('NOTIFICATIONS_HOOK')
    pushbullet_key,      \* os.getenv('PUSHBULLET_API_KEY')
    store,               \* the records behind get_record / upsert_record
    cyc,                 \* per running cycle: the locals of respond_to_girl
    cycles,              \* number of cycles started so far
    step2_seen,          \* per key: some Analyzer result said step2
    last_writer          \* per key: the cycle whose upsert_record came last

vars == <<notifications_hook, pushbullet_key, store, cyc, cycles, step2_seen, last_writer>>

\* the locals of one call of respond_to_girl, and a record of what it called
IdleCycle ==
    [pc               |-> "idle",
     name_age         |-> NoKey,
     incoming         |-> <<>>,
     messages         |-> <<>>,
     previous_summary |-> None,
     analyzer_output  |-> NoOutput,
     future_step      |-> None,
     summary          |-> None,
     contact          |-> None,
     shape            |-> None,
     tags             |-> <<>>,
     rules            |-> <<>>,
     writer_args      |-> <<>>,
     writer_output    |-> Nothing,
     analyzer2_summary |-> None,
     attempts         |-> 0,
     errors_logged    |-> 0,
     last_failure     |-> None,
     slept            |-> 0,
     analyzer_args    |-> <<>>,
     commander_calls  |-> 0,
     rule_lookups     |-> 0,
     hook_calls       |-> <<>>,
     push_calls       |-> <<>>,
     upserts          |-> <<>>,
     upserts_at_refresh |-> 0,
     error            |-> None,
     start_record     |-> [summary |-> Blank, suspended |-> FALSE],
     failed_attempts  |-> 0,
     ret              |-> Nothing]

Init ==
    /\ notifications_hook \in HookUrls
    /\ pushbullet_key \in PushKeys
    /\ store = [k \in Keys |-> [summary |-> Blank, suspended |-> FALSE]]
    /\ cyc = [p \in Procs |-> IdleCycle]
    /\ cycles = 0
    /\ step2_seen = [k \in Keys |-> FALSE]
    /\ last_writer = [k \in Keys |-> NoProc]

Ended(c) == c.pc \in {"done", "raised"}

Raise(c, err) == [c EXCEPT !.pc = "raised", !.error = err]

\* ---------------------------------------------------------------- actions

\* respond_to_girl(name_age, messages), line 114: previous_summary = get_record
Start(p, name_age, messages) ==
    /\ cyc[p].pc = "idle" \/ Ended(cyc[p])
    /\ cycles < MaxCycles
    /\ cycles' = cycles + 1
    /\ cyc' = [cyc EXCEPT ![p] =
            [IdleCycle EXCEPT !.pc = "analyze",
                              !.name_age = name_age,
                              !.incoming = messages,
                              !.messages = messages,
                              !.start_record = store[name_age],
                              !.previous_summary = get_record(store, name_age)]]
    /\ UNCHANGED <<notifications_hook, pushbullet_key, store, step2_seen, last_writer>>

\* line 115-120: analyzer_chain.invoke returns
AnalyzerReturns(p, out) ==
    /\ cyc[p].pc = "analyze"
    /\ cyc' = [cyc EXCEPT ![p] =
            [@ EXCEPT !.analyzer_args = Append(@, [summary  |-> cyc[p].previous_summary,
                                                  messages |-> cyc[p].messages]),
                      !.analyzer_output = out,
                      !.future_step = out.future_step,
                      !.summary = out.summary,
                      !.contact = out.contact,
                      !.pc = IF out.contact # Blank THEN "hook" ELSE "commander"]]
    /\ step2_seen' = [step2_seen EXCEPT ![cyc[p].name_age] =
                            @ \/ out.future_step = "step2"]
    /\ UNCHANGED <<notifications_hook, pushbullet_key, store, cycles, last_writer>>

\* line 115: analyzer_chain.invoke raises (no retry wrapper around it)
AnalyzerRaises(p) ==
    /\ cyc[p].pc = "analyze"
    /\ cyc' = [cyc EXCEPT ![p] =
            Raise([@ EXCEPT !.analyzer_args = Append(@, [summary  |-> cyc[p].previous_summary,
                                                        messages |-> cyc[p].messages]),
                            !.failed_attempts = @ + 1],
                  "AnalyzerError")]
    /\ UNCHANGED <<notifications_hook, pushbullet_key, store, cycles, step2_seen, last_writer>>

\* line 121-123: contact found, no NOTIFICATIONS_HOOK configured
HookSkipped(p) ==
    /\ cyc[p].pc = "hook"
    /\ notifications_hook = None
    /\ cyc' = [cyc EXCEPT ![p] = [@ EXCEPT !.pc = "push"]]
    /\ UNCHANGED <<notifications_hook, pushbullet_key, store, cycles, step2_seen, last_writer>>

HookParams(c) == [url |-> notifications_hook, name_age |-> c.name_age, contact |-> c.contact]

\* line 122-123: requests.get(notifications_hook, params=...) returns
HookGet(p) ==
    /\ cyc[p].pc = "hook"
    /\ notifications_hook # None
    /\ cyc' = [cyc EXCEPT ![p] =
            [@ EXCEPT !.hook_calls = Append(@, HookParams(cyc[p])),
                      !.pc = "push"]]
    /\ UNCHANGED <<notifications_hook, pushbullet_key, store, cycles, step2_seen, last_writer>>

\* a contact exit that marks the record first and notifies afterwards
HookRaises_after_suspend(p) ==
    /\ cyc[p].pc = "hook"
    /\ notifications_hook # None
    /\ store' = upsert_record(store, cyc[p].name_age, None, TRUE)
    /\ cyc' = [cyc EXCEPT ![p] =
            Raise([@ EXCEPT !.hook_calls = Append(@, HookParams(cyc[p])),
                            !.upserts = Append(@, [name_age |-> cyc[p].name_age,
                                                  summary |-> None,
                                                  not_to_rise |-> TRUE])],
                  "RequestException")]
    /\ last_writer' = [last_writer EXCEPT ![cyc[p].name_age] = p]
    /\ UNCHANGED <<notifications_hook, pushbullet_key, cycles, step2_seen>>

\* line 123: requests.get raises (connection error, timeout)
HookRaises(p) ==
    /\ cyc[p].pc = "hook"
    /\ notifications_hook # None
    /\ cyc' = [cyc EXCEPT ![p] =
            Raise([@ EXCEPT !.hook_calls = Append(@, HookParams(cyc[p]))],
                  "RequestException")]
    /\ UNCHANGED <<notifications_hook, pushbullet_key, store, cycles, step2_seen, last_writer>>

PushArgs(c) == [title |-> <<"I planned date with ", c.name_age>>, body |-> c.contact]

\* line 124 with line 39-41: the name pushbullet is bound only if the key is set
PushNote(p) ==
    /\ cyc[p].pc = "push"
    /\ pushbullet_key # None
    /\ cyc' = [cyc EXCEPT ![p] =
            [@ EXCEPT !.push_calls = Append(@, PushArgs(cyc[p])),
                      !.pc = "suspend"]]
    /\ UNCHANGED <<notifications_hook, pushbullet_key, store, cycles, step2_seen, last_writer>>

\* line 124: pushbullet.push_note raises (network, invalid key)
PushRaises(p) ==
    /\ cyc[p].pc = "push"
    /\ pushbullet_key # None
    /\ cyc' = [cyc EXCEPT ![p] =
            Raise([@ EXCEPT !.push_calls = Append(@, PushArgs(cyc[p]))],
                  "PushError")]
    /\ UNCHANGED <<notifications_hook, pushbullet_key, store, cycles, step2_seen, last_writer>>

\* line 124 when PUSHBULLET_API_KEY is unset: line 41 never ran, so the
\* global name pushbullet does not exist and evaluating it is a NameError
PushUnbound(p) ==
    /\ cyc[p].pc = "push"
    /\ pushbullet_key = None
    /\ cyc' = [cyc EXCEPT ![p] = Raise(@, "NameError")]
    /\ UNCHANGED <<notifications_hook, pushbullet_key, store, cycles, step2_seen, last_writer>>

\* a contact exit that also hands the Analyzer's summary to upsert_record
Suspend_with_summary(p) ==
    /\ cyc[p].pc = "suspend"
    /\ store' = upsert_record(store, cyc[p].name_age, cyc[p].summary, TRUE)
    /\ cyc' = [cyc EXCEPT ![p] =
            [@ EXCEPT !.upserts = Append(@, [name_age |-> cyc[p].name_age,
                                            summary |-> cyc[p].summary,
                                            not_to_rise |-> TRUE]),
                      !.ret = Nothing,
                      !.pc = "done"]]
    /\ last_writer' = [last_writer EXCEPT ![cyc[p].name_age] = p]
    /\ UNCHANGED <<notifications_hook, pushbullet_key, cycles, step2_seen>>

\* line 125-126: upsert_record(name_age, not_to_rise=True); return
Suspend(p) ==
    /\ cyc[p].pc = "suspend"
    /\ store' = upsert_record(store, cyc[p].name_age, None, TRUE)
    /\ cyc' = [cyc EXCEPT ![p] =
            [@ EXCEPT !.upserts = Append(@, [name_age |-> cyc[p].name_age,
                                            summary |-> None,
                                            not_to_rise |-> TRUE]),
                      !.ret = Nothing,
                      !.pc = "done"]]
    /\ last_writer' = [last_writer EXCEPT ![cyc[p].name_age] = p]
    /\ UNCHANGED <<notifications_hook, pushbullet_key, cycles, step2_seen>>

\* line 128-130: commander_chain(future_step).invoke returns a tag list
CommanderReturns(p, tags) ==
    /\ cyc[p].pc = "commander"
    /\ tags \in ShapeTags(commander_chain(cyc[p].future_step))
    /\ cyc' = [cyc EXCEPT ![p] =
            [@ EXCEPT !.shape = commander_chain(cyc[p].future_step),
                      !.commander_calls = @ + 1,
                      !.tags = tags,
                      !.pc = "rules"]]
    /\ UNCHANGED <<notifications_hook, pushbullet_key, store, cycles, step2_seen, last_writer>>

\* line 128: the Commander call raises (no retry wrapper around it)
CommanderRaises(p) ==
    /\ cyc[p].pc = "commander"
    /\ cyc' = [cyc EXCEPT ![p] =
            Raise([@ EXCEPT !.shape = commander_chain(cyc[p].future_step),
                            !.commander_calls = @ + 1,
                            !.failed_attempts = @ + 1],
                  "CommanderError")]
    /\ UNCHANGED <<notifications_hook, pushbullet_key, store, cycles, step2_seen, last_writer>>

\* line 131: rules = "\n###\n- ".join([query_rule(tag) for tag in tags])
ResolveRules(p) ==
    /\ cyc[p].pc = "rules"
    /\ cyc' = [cyc EXCEPT ![p] =
            [@ EXCEPT !.rules = Join(RuleList(cyc[p].tags)),
                      !.rule_lookups = @ + Len(cyc[p].tags),
                      !.pc = "writer"]]
    /\ UNCHANGED <<notifications_hook, pushbullet_key, store, cycles, step2_seen, last_writer>>

\* the args dict of line 132-137
WriterArgs(c) ==
    [rules |-> c.rules, messages |-> c.messages, language |-> language, city |-> city]

\* a stop condition that is off by one: a fourth attempt is made
StopAfterAttempt_late(attempt_number) == attempt_number > MaxAttempts

\* a stop condition that gives up after the first failure
StopAfterAttempt_first(attempt_number) == attempt_number >= 1

\* tenacity: after a failed attempt, stop_after_attempt(3) ends the loop
StopAfterAttempt(attempt_number) == attempt_number >= MaxAttempts

\* a retry that wraps too much: each new attempt looks the rules up again
WriterAttemptFails_relookup(p, kind) ==
    /\ cyc[p].pc = "writer"
    /\ LET c == [cyc[p] EXCEPT !.attempts = @ + 1,
                               !.writer_args = Append(@, WriterArgs(cyc[p])),
                               !.failed_attempts = @ + 1,
                               !.errors_logged = @ + 1,
                               !.last_failure = kind]
       IN cyc' = [cyc EXCEPT ![p] =
                IF StopAfterAttempt(c.attempts)
                THEN Raise(c, "RetryError")
                ELSE [c EXCEPT !.slept = @ + WaitFixed,
                               !.rule_lookups = @ + Len(c.tags)]]
    /\ UNCHANGED <<notifications_hook, pushbullet_key, store, cycles, step2_seen, last_writer>>

\* invoke_chain, line 101-110, one attempt that fails: chain.invoke raises
\* ("transport") or json.loads rejects the text ("format"); the except
\* branch prints and re-raises, and the retry decorator either sleeps and
\* tries again or gives up with RetryError
WriterAttemptFails(p, kind) ==
    /\ cyc[p].pc = "writer"
    /\ LET c == [cyc[p] EXCEPT !.attempts = @ + 1,
                               !.writer_args = Append(@, WriterArgs(cyc[p])),
                               !.failed_attempts = @ + 1,
                               !.errors_logged = @ + 1,
                               !.last_failure = kind]
       IN cyc' = [cyc EXCEPT ![p] =
                IF StopAfterAttempt(c.attempts)
                THEN Raise(c, "RetryError")
                ELSE [c EXCEPT !.slept = @ + WaitFixed]]
    /\ UNCHANGED <<notifications_hook, pushbullet_key, store, cycles, step2_seen, last_writer>>

\* invoke_chain, line 103-107: chain.invoke returns text and json.loads
\* parses it; the parsed value is returned whatever fields it has
WriterAttemptReturns(p, out) ==
    /\ cyc[p].pc = "writer"
    /\ cyc' = [cyc EXCEPT ![p] =
            [@ EXCEPT !.attempts = @ + 1,
                      !.writer_args = Append(@, WriterArgs(cyc[p])),
                      !.failed_attempts = 0,
                      !.writer_output = Some(out),
                      !.pc = "written"]]
    /\ UNCHANGED <<notifications_hook, pushbullet_key, store, cycles, step2_seen, last_writer>>

\* line 139-141: messages = writer_output['message'], then the refresh test
TakeMessage(p) ==
    /\ cyc[p].pc = "written"
    /\ cyc' = [cyc EXCEPT ![p] =
            IF "message" \notin DOMAIN cyc[p].writer_output[1]
            THEN Raise(@, "KeyError")
            ELSE [@ EXCEPT !.messages = cyc[p].writer_output[1].message,
                           !.pc = IF NeedsRefresh(cyc[p].tags)
                                  THEN "refresh" ELSE "persist"]]
    /\ UNCHANGED <<notifications_hook, pushbullet_key, store, cycles, step2_seen, last_writer>>

\* a refresh that sends the stored summary instead of this cycle's
RefreshArgs_stale_summary(c) ==
    [summary |-> c.previous_summary, messages |-> <<"Conversator: ">> \o c.messages]

\* line 142: {'summary': summary, 'messages': f'Conversator: {messages}'},
\* messages being the Writer's list since line 139
RefreshArgs(c) == [summary |-> c.summary, messages |-> <<"Conversator: ">> \o c.messages]

\* a refresh that drops line 144: the refreshed summary is never taken over
RefreshReturns_summary_dropped(p, out) ==
    /\ cyc[p].pc = "refresh"
    /\ cyc' = [cyc EXCEPT ![p] =
            [@ EXCEPT !.analyzer_args = Append(@, RefreshArgs(cyc[p])),
                      !.upserts_at_refresh = Len(cyc[p].upserts),
                      !.analyzer2_summary = out.summary,
                      !.pc = "persist"]]
    /\ UNCHANGED <<notifications_hook, pushbullet_key, store, cycles, step2_seen, last_writer>>

\* line 142-144: the second analyzer_chain.invoke returns; of its result
\* only the summary field is ever read
RefreshReturns(p, out) ==
    /\ cyc[p].pc = "refresh"
    /\ cyc' = [cyc EXCEPT ![p] =
            [@ EXCEPT !.analyzer_args = Append(@, RefreshArgs(cyc[p])),
                      !.upserts_at_refresh = Len(cyc[p].upserts),
                      !.analyzer2_summary = out.summary,
                      !.summary = out.summary,
                      !.pc = "persist"]]
    /\ UNCHANGED <<notifications_hook, pushbullet_key, store, cycles, step2_seen, last_writer>>

\* a cycle that wrote the first summary before the refresh: the failing
\* refresh then leaves a record behind
RefreshRaises_after_write(p) ==
    /\ cyc[p].pc = "refresh"
    /\ store' = upsert_record(store, cyc[p].name_age, cyc[p].summary, FALSE)
    /\ cyc' = [cyc EXCEPT ![p] =
            Raise([@ EXCEPT !.analyzer_args = Append(@, RefreshArgs(cyc[p])),
                            !.failed_attempts = @ + 1,
                            !.upserts = Append(@, [name_age |-> cyc[p].name_age,
                                                  summary |-> cyc[p].summary,
                                                  not_to_rise |-> FALSE])],
                  "AnalyzerError")]
    /\ last_writer' = [last_writer EXCEPT ![cyc[p].name_age] = p]
    /\ UNCHANGED <<notifications_hook, pushbullet_key, cycles, step2_seen>>

\* line 142: the second analyzer_chain.invoke raises
RefreshRaises(p) ==
    /\ cyc[p].pc = "refresh"
    /\ cyc' = [cyc EXCEPT ![p] =
            Raise([@ EXCEPT !.analyzer_args = Append(@, RefreshArgs(cyc[p])),
                            !.failed_attempts = @ + 1,
                            !.upserts_at_refresh = Len(cyc[p].upserts)],
                  "AnalyzerError")]
    /\ UNCHANGED <<notifications_hook, pushbullet_key, store, cycles, step2_seen, last_writer>>

\* a write that goes through only if the record is still as this cycle
\* found it: the first of two racing cycles wins
Persist_first_wins(p) ==
    /\ cyc[p].pc = "persist"
    /\ store' = IF store[cyc[p].name_age] = cyc[p].start_record
                THEN upsert_record(store, cyc[p].name_age, cyc[p].summary, FALSE)
                ELSE store
    /\ cyc' = [cyc EXCEPT ![p] =
            [@ EXCEPT !.upserts = Append(@, [name_age |-> cyc[p].name_age,
                                            summary |-> cyc[p].summary,
                                            not_to_rise |-> FALSE]),
                      !.ret = Some(cyc[p].messages),
                      !.pc = "done"]]
    /\ last_writer' = [last_writer EXCEPT ![cyc[p].name_age] = p]
    /\ UNCHANGED <<notifications_hook, pushbullet_key, cycles, step2_seen>>

\* a final write that also sets not_to_rise
Persist_suspending(p) ==
    /\ cyc[p].pc = "persist"
    /\ store' = upsert_record(store, cyc[p].name_age, cyc[p].summary, TRUE)
    /\ cyc' = [cyc EXCEPT ![p] =
            [@ EXCEPT !.upserts = Append(@, [name_age |-> cyc[p].name_age,
                                            summary |-> cyc[p].summary,
                                            not_to_rise |-> TRUE]),
                      !.ret = Some(cyc[p].messages),
                      !.pc = "done"]]
    /\ last_writer' = [last_writer EXCEPT ![cyc[p].name_age] = p]
    /\ UNCHANGED <<notifications_hook, pushbullet_key, cycles, step2_seen>>

\* line 146-147: upsert_record(name_age, summary); return messages
Persist(p) ==
    /\ cyc[p].pc = "persist"
    /\ store' = upsert_record(store, cyc[p].name_age, cyc[p].summary, FALSE)
    /\ cyc' = [cyc EXCEPT ![p] =
            [@ EXCEPT !.upserts = Append(@, [name_age |-> cyc[p].name_age,
                                            summary |-> cyc[p].summary,
                                            not_to_rise |-> FALSE]),
                      !.ret = Some(cyc[p].messages),
                      !.pc = "done"]]
    /\ last_writer' = [last_writer EXCEPT ![cyc[p].name_age] = p]
    /\ UNCHANGED <<notifications_hook, pushbullet_key, cycles, step2_seen>>

\* one call of respond_to_girl at a time: the single-operator use of the module
Next ==
    \/ \E k \in Keys, m \in Incoming : Start(Main, k, m)
    \/ \E out \in AnalyzerOutput : AnalyzerReturns(Main, out)
    \/ AnalyzerRaises(Main)
    \/ HookSkipped(Main)
    \/ HookGet(Main)
    \/ HookRaises(Main)
    \/ PushNote(Main)
    \/ PushRaises(Main)
    \/ PushUnbound(Main)
    \/ Suspend(Main)
    \/ \E tags \in CommanderStep1Output \cup CommanderStep2Output : CommanderReturns(Main, tags)
    \/ CommanderRaises(Main)
    \/ ResolveRules(Main)
    \/ \E kind \in FailureKinds : WriterAttemptFails(Main, kind)
    \/ \E out \in WriterReplies : WriterAttemptReturns(Main, out)
    \/ TakeMessage(Main)
    \/ \E out \in AnalyzerOutput : RefreshReturns(Main, out)
    \/ RefreshRaises(Main)
    \/ Persist(Main)

Spec == Init /\ [][Next]_vars

\* ---- two callers at once
\* respond_to_girl takes no lock and get_record / upsert_record are separate
\* requests, so the steps of two calls interleave freely.  Here both
\* integrations are configured and every external call answers; the replies
\* are drawn from the sets below.

ConcAnalyzerOutput == {out \in AnalyzerOutput : out.future_step # "Step1"}
ConcTags == { <<"Bond">>, <<"Storytelling">>, <<"Comfort">> }
ConcWriterReplies == {out \in WriterReplies : "message" \in DOMAIN out /\ Len(out.message) = 1}

InitConc ==
    /\ Init
    /\ notifications_hook # None
    /\ pushbullet_key # None

\* one step of the call of respond_to_girl that runs as p
Step(p) ==
    \/ \E k \in Keys, m \in Incoming : Start(p, k, m)
    \/ \E out \in ConcAnalyzerOutput : AnalyzerReturns(p, out)
    \/ HookGet(p)
    \/ PushNote(p)
    \/ Suspend(p)
    \/ \E tags \in ConcTags : CommanderReturns(p, tags)
    \/ ResolveRules(p)
    \/ \E out \in ConcWriterReplies : WriterAttemptReturns(p, out)
    \/ TakeMessage(p)
    \/ \E out \in ConcAnalyzerOutput : RefreshReturns(p, out)
    \/ Persist(p)

NextConc == \E p \in Procs : Step(p)

SpecConc == InitConc /\ [][NextConc]_vars

\* ------------------------------------------------------------ properties

\* the cycle took the contact branch of line 121
OnContactPath(c) == c.contact # None /\ c.contact # Blank

\* the cycle took the other branch of line 121
OffContactPath(c) == c.contact = Blank

\* a notification service itself failed (network), as opposed to the program
NotificationFailed(c) == c.error \in {"RequestException", "PushError"}

SuspendCall(c) == [name_age |-> c.name_age, summary |-> None, not_to_rise |-> TRUE]

\* C1: in a cycle whose first Analyzer result has a non-empty contact,
\* Commander, Writer, the rule lookup and a second Analyzer call never
\* happen, and when the cycle is over (the notification services having
\* answered) upsert_record was called with not_to_rise=True and the contact
\* is suspended.
C1_ContactExitSuspends ==
    \A p \in Procs :
        LET c == cyc[p] IN
        OnContactPath(c) =>
            /\ c.commander_calls = 0
            /\ c.attempts = 0
            /\ c.rule_lookups = 0
            /\ Len(c.analyzer_args) = 1
            /\ (Ended(c) /\ ~NotificationFailed(c)) =>
                    /\ c.upserts = <<SuspendCall(c)>>
                    /\ store[c.name_age].suspended

\* C2: in a cycle whose first Analyzer result has an empty contact,
\* Commander is invoked exactly once, with the step1 shape when Analyzer
\* returned step1 and the step2 shape when it returned step2; on the
\* contact path it is not invoked.
C2_CommanderGetsAnalyzerPhase ==
    \A p \in Procs :
        LET c == cyc[p] IN
        /\ c.commander_calls <= 1
        /\ (OffContactPath(c) /\ c.pc # "commander") => c.commander_calls = 1
        /\ c.commander_calls = 1 =>
                /\ OffContactPath(c)
                /\ c.future_step = "step1" => c.shape = "step1"
                /\ c.future_step = "step2" => c.shape = "step2"

\* a finished cycle in which Commander was called once with the step1 shape
\* after Analyzer returned step1 with an empty contact
C2_Witness ==
    \E p \in Procs :
        /\ cyc[p].pc = "done"
        /\ cyc[p].contact = Blank
        /\ cyc[p].future_step = "step1"
        /\ cyc[p].shape = "step1"
        /\ cyc[p].commander_calls = 1

\* C3: invoke_chain makes at most 3 attempts; a result accepted on the
\* third attempt comes with exactly two logged retry messages; after three
\* failures the call ends in RetryError with no result, and no attempt is
\* pending after the third.
C3_RetryBound ==
    \A p \in Procs :
        LET c == cyc[p] IN
        /\ c.attempts <= 3
        /\ c.pc = "writer" => c.attempts < 3
        /\ (c.attempts = 3 /\ c.writer_output # Nothing) => c.errors_logged = 2
        /\ c.writer_output # Nothing => c.errors_logged = c.attempts - 1
        /\ c.errors_logged = 3 =>
                /\ c.pc = "raised"
                /\ c.error = "RetryError"
                /\ c.writer_output = Nothing
                /\ c.ret = Nothing
        /\ c.error = "RetryError" => (c.attempts = 3 /\ c.errors_logged = 3)

\* the Writer failed twice and its third attempt was accepted
C3_Witness ==
    \E p \in Procs :
        /\ cyc[p].attempts = 3
        /\ cyc[p].errors_logged = 2
        /\ cyc[p].writer_output # Nothing
        /\ cyc[p].pc = "written"

\* the tag list holds one of the two tags that ask for a summary refresh
HasRefreshTag(tags) ==
    \E i \in DOMAIN tags : tags[i] \in {"Attractive guy image", "Storytelling"}

WriterGaveMessage(c) ==
    c.writer_output # Nothing /\ "message" \in DOMAIN c.writer_output[1]

\* C4: in a non-contact cycle that got its message from the Writer, the
\* Analyzer is called a second time exactly when Commander's tags contain
\* 'Attractive guy image' or 'Storytelling'; there is never a third call;
\* the second call comes after the Writer succeeded and before anything
\* was persisted; without such a tag there is only the first call.
C4_RefreshGate ==
    \A p \in Procs :
        LET c == cyc[p] IN
        /\ Len(c.analyzer_args) <= 2
        /\ Len(c.analyzer_args) = 2 =>
                /\ HasRefreshTag(c.tags)
                /\ OffContactPath(c)
                /\ WriterGaveMessage(c)
                /\ c.upserts_at_refresh = 0
        /\ ~HasRefreshTag(c.tags) => Len(c.analyzer_args) <= 1
        /\ (c.pc = "persist" \/ (c.pc = "done" /\ OffContactPath(c))) =>
                (Len(c.analyzer_args) = 2 <=> HasRefreshTag(c.tags))
        /\ c.upserts # <<>> /\ OffContactPath(c) /\ HasRefreshTag(c.tags) =>
                Len(c.analyzer_args) = 2

\* a finished cycle with the tag list ["Storytelling"], two Analyzer calls
\* and one record written after the second
C4_Witness ==
    \E p \in Procs :
        /\ cyc[p].pc = "done"
        /\ cyc[p].tags = <<"Storytelling">>
        /\ Len(cyc[p].analyzer_args) = 2
        /\ Len(cyc[p].upserts) = 1

GenerationErrors == {"AnalyzerError", "CommanderError", "RetryError", "KeyError"}

\* C5: when a generation step of a cycle fails for good (Analyzer or
\* Commander raises, the Writer runs out of attempts or returns no message,
\* the refresh Analyzer raises) the cycle raises, returns nothing, never
\* calls upsert_record, and the contact's record is as it was at the start.
C5_FailedCycleWritesNothing ==
    \A p \in Procs :
        LET c == cyc[p] IN
        (c.pc = "raised" /\ c.error \in GenerationErrors) =>
            /\ c.upserts = <<>>
            /\ c.ret = Nothing
            /\ store[c.name_age] = c.start_record

\* the refresh Analyzer call of a cycle raised, after the Writer succeeded
C5_Witness ==
    \E p \in Procs :
        /\ cyc[p].pc = "raised"
        /\ cyc[p].error = "AnalyzerError"
        /\ Len(cyc[p].analyzer_args) = 2
        /\ cyc[p].upserts = <<>>

\* C6 as stated: once an Analyzer result put the contact in step2, no later
\* cycle for that contact calls Commander with the step1 shape.
C6_PhaseNeverRegresses ==
    \A p \in Procs :
        LET c == cyc[p] IN
        (c.commander_calls = 1 /\ c.shape = "step1") => ~step2_seen[c.name_age]

\* C6 amended: the code keeps no phase between cycles; after a step2 result
\* for a contact, a later cycle calls Commander with the step1 shape exactly
\* when its own Analyzer result says step1.
C6_PhaseFollowsAnalyzer ==
    \A p \in Procs :
        LET c == cyc[p] IN
        (c.commander_calls = 1 /\ step2_seen[c.name_age]) =>
            (c.shape = "step1" <=> c.analyzer_output.future_step = "step1")

\* a cycle for a contact already seen in step2 called Commander with the
\* step1 shape
C6_Witness ==
    \E p \in Procs :
        /\ cyc[p].commander_calls = 1
        /\ cyc[p].shape = "step1"
        /\ cyc[p].name_age \in Keys
        /\ step2_seen[cyc[p].name_age]

\* C7: a non-contact cycle that returns has called upsert_record exactly
\* once, for its own contact key, and returns the Writer's message list as
\* it is; the summary written is the first Analyzer result's when there was
\* no refresh and the refresh result's when there was one.
C7_PersistThenReturn ==
    \A p \in Procs :
        LET c == cyc[p] IN
        (c.pc = "done" /\ OffContactPath(c)) =>
            LET written == IF Len(c.analyzer_args) = 2
                           THEN c.analyzer2_summary
                           ELSE c.analyzer_output.summary
            IN /\ c.upserts = <<[name_age |-> c.name_age,
                                 summary |-> written,
                                 not_to_rise |-> FALSE]>>
               /\ c.ret = Some(c.writer_output[1].message)
               /\ store[c.name_age].summary = written

\* a returned cycle whose refresh result differs from its first Analyzer
\* result and whose message list has two parts
C7_Witness ==
    \E p \in Procs :
        /\ cyc[p].pc = "done"
        /\ Len(cyc[p].analyzer_args) = 2
        /\ cyc[p].analyzer2_summary # cyc[p].analyzer_output.summary
        /\ cyc[p].ret = <<(<<"m1", "m2">>)>>
        /\ Len(cyc[p].upserts) = 1

\* C8: on the contact-exit path (the notification services having
\* answered) the webhook GET was issued exactly if a hook URL is
\* configured, with name_age and the Analyzer's contact string as
\* parameters, the push note carries the same string, the record is then
\* suspended, and the cycle returns None.
C8_ContactExitNotifies ==
    \A p \in Procs :
        LET c == cyc[p] IN
        (OnContactPath(c) /\ Ended(c) /\ ~NotificationFailed(c)) =>
            /\ c.hook_calls =
                    IF notifications_hook # None
                    THEN <<[url |-> notifications_hook,
                            name_age |-> c.name_age,
                            contact |-> c.analyzer_output.contact]>>
                    ELSE <<>>
            /\ c.pc = "done"
            /\ c.upserts = <<SuspendCall(c)>>
            /\ c.ret = Nothing

\* C9: without a push service key the push is silently off: a contact-exit
\* cycle that gets to the push sends no note, still suspends the contact
\* and returns without raising.
C9_PushIsOptional ==
    \A p \in Procs :
        LET c == cyc[p] IN
        (pushbullet_key = None /\ OnContactPath(c) /\ Ended(c)
            /\ c.error # "RequestException") =>
            /\ c.push_calls = <<>>
            /\ c.pc = "done"
            /\ c.error = None
            /\ store[c.name_age].suspended

\* C10 as stated: every generation call is retried, so a cycle that fails on
\* a generation call has seen that call fail more than once.
C10_EveryCallRetried ==
    \A p \in Procs :
        LET c == cyc[p] IN
        (c.pc = "raised" /\ c.error \in {"AnalyzerError", "CommanderError", "RetryError"}) =>
            c.failed_attempts >= 2

\* C10 amended: only the Writer call runs under the retry policy. One
\* failed Writer attempt leaves the cycle in the Writer call, and the cycle
\* fails on the Writer only after 3 failed attempts; one failure of the
\* first Analyzer, the Commander or the refresh Analyzer call fails the
\* cycle at once.
C10_OnlyWriterRetried ==
    \A p \in Procs :
        LET c == cyc[p] IN
        /\ (c.attempts = 1 /\ c.errors_logged = 1) => c.pc = "writer"
        /\ (c.pc = "raised" /\ c.error = "RetryError") => c.failed_attempts = MaxAttempts
        /\ (c.pc = "raised" /\ c.error \in {"AnalyzerError", "CommanderError"}) =>
                c.failed_attempts = 1
        /\ (c.failed_attempts >= 1 /\ c.pc # "raised") => c.pc = "writer"

\* a cycle that returned its message although one Writer attempt failed
C10_Witness ==
    \E p \in Procs :
        /\ cyc[p].pc = "done"
        /\ cyc[p].errors_logged = 1
        /\ cyc[p].attempts = 2
        /\ cyc[p].ret # Nothing

\* the cycle has built its guidance block (line 131 is behind it)
RulesBuilt(c) == c.pc \in {"writer", "written", "refresh", "persist"} \/ c.writer_args # <<>>

\* C11: the guidance block is made of one rule lookup per tag occurrence,
\* the texts standing in the order of Commander's tag list with the fixed
\* separator between neighbours, and every Writer attempt is handed that
\* same block.
C11_GuidanceInTagOrder ==
    \A p \in Procs :
        LET c == cyc[p]
            n == Len(c.tags)
        IN RulesBuilt(c) =>
            /\ c.rule_lookups = n
            /\ Len(c.rules) = IF n = 0 THEN 0 ELSE 2 * n - 1
            /\ \A i \in 1..n : c.rules[2 * i - 1] = query_rule(c.tags[i])
            /\ \A i \in 1..(n - 1) : c.rules[2 * i] = Separator
            /\ \A j \in DOMAIN c.writer_args : c.writer_args[j].rules = c.rules

\* the Writer was called twice with the block for ["Storytelling", "Bond"]
C11_Witness ==
    \E p \in Procs :
        /\ cyc[p].tags = <<"Storytelling", "Bond">>
        /\ Len(cyc[p].writer_args) = 2
        /\ cyc[p].writer_args[2].rules =
                <<query_rule("Storytelling"), Separator, query_rule("Bond")>>

\* C12: two cycles for one contact are not serialized: a cycle that has
\* reached its write is never held back by the other, and the record holds
\* what the cycle that wrote last passed to upsert_record, whatever the
\* other cycle wrote before: last write wins, nothing is merged or refused.
C12_LastWriteWins ==
    /\ \A p \in Procs :
            /\ cyc[p].pc = "persist" => ENABLED Persist(p)
            /\ cyc[p].pc = "suspend" => ENABLED Suspend(p)
            /\ cyc[p].pc = "done" => cyc[p].error = None
    /\ \A k \in Keys :
            last_writer[k] # NoProc =>
                LET w == cyc[last_writer[k]] IN
                (w.name_age = k /\ w.upserts # <<>>) =>
                    IF w.upserts[1].not_to_rise
                    THEN store[k].suspended
                    ELSE store[k].summary = w.upserts[1].summary

\* both cycles read the same prior summary of one contact, both returned
\* after writing different summaries, and the record holds only the later
\* one
C12_Witness ==
    \E p \in Procs, q \in Procs :
        /\ p # q
        /\ cyc[p].pc = "done" /\ cyc[q].pc = "done"
        /\ cyc[p].name_age = cyc[q].name_age
        /\ cyc[p].previous_summary = cyc[q].previous_summary
        /\ cyc[p].ret # Nothing /\ cyc[q].ret # Nothing
        /\ cyc[p].upserts # <<>> /\ cyc[q].upserts # <<>>
        /\ cyc[p].upserts[1].summary # cyc[q].upserts[1].summary
        /\ last_writer[cyc[p].name_age] = q
        /\ store[cyc[p].name_age].summary = cyc[q].upserts[1].summary

\* the summaries the Analyzer has produced so far in this cycle
AnalyzerSummaries(c) ==
    (IF Len(c.analyzer_args) >= 1 /\ c.analyzer_output # NoOutput
     THEN {c.analyzer_output.summary} ELSE {})
    \cup (IF c.analyzer2_summary # None THEN {c.analyzer2_summary} ELSE {})

\* C13: every summary handed to upsert_record is the summary field of an
\* Analyzer result of the same cycle; on the contact-exit path no summary
\* is handed over at all and the stored summary stays what it was when the
\* cycle began.
C13_SummaryOnlyFromAnalyzer ==
    \A p \in Procs :
        LET c == cyc[p] IN
        /\ \A i \in DOMAIN c.upserts :
                IF OnContactPath(c)
                THEN c.upserts[i].summary = None
                ELSE c.upserts[i].summary \in AnalyzerSummaries(c)
        /\ OnContactPath(c) => store[c.name_age].summary = c.start_record.summary
        /\ (c.name_age \in Keys /\ store[c.name_age].summary # c.start_record.summary) =>
                store[c.name_age].summary \in AnalyzerSummaries(c)

\* a contact cycle ended suspended; the stored summary is the earlier one,
\* not the one its Analyzer returned
C13_Witness ==
    \E p \in Procs :
        /\ cyc[p].pc = "done"
        /\ cyc[p].contact = "Instagram jane_doe"
        /\ cyc[p].start_record.summary = "S1"
        /\ cyc[p].analyzer_output.summary = "S2"
        /\ store[cyc[p].name_age] = [summary |-> "S1", suspended |-> TRUE]

\* C14 as stated: the refresh call gets the first Analyzer result's summary
\* and, as messages, the incoming messages with the generated message
\* appended under the speaker label.
C14_RefreshGetsWholeConversation ==
    \A p \in Procs :
        LET c == cyc[p] IN
        Len(c.analyzer_args) = 2 =>
            /\ c.analyzer_args[2].summary = c.analyzer_output.summary
            /\ c.analyzer_args[2].messages =
                    c.incoming \o <<"Conversator: ">> \o c.writer_output[1].message

\* C14 amended: the refresh call gets the first Analyzer result's summary
\* (not the stored one) and, as messages, only the generated message list
\* under the speaker label "Conversator: "; the incoming messages are not
\* part of it, line 139 having rebound the name messages to the Writer's
\* list.
C14_RefreshGetsGeneratedOnly ==
    \A p \in Procs :
        LET c == cyc[p] IN
        Len(c.analyzer_args) = 2 =>
            /\ c.analyzer_args[2].summary = c.analyzer_output.summary
            /\ c.analyzer_args[2].messages =
                    <<"Conversator: ">> \o c.writer_output[1].message
            /\ c.analyzer_args[1].summary = c.previous_summary
            /\ c.analyzer_args[1].messages = c.incoming

\* a refresh call in a cycle whose stored summary differs from the one its
\* first Analyzer call returned
C14_Witness ==
    \E p \in Procs :
        /\ Len(cyc[p].analyzer_args) = 2
        /\ cyc[p].previous_summary = "S1"
        /\ cyc[p].analyzer_output.summary = "S2"
        /\ cyc[p].analyzer_args[2] =
                [summary |-> "S2", messages |-> <<"Conversator: ", "m1", "m2">>]

\* the record of the cycle's contact became suspended during this cycle
SuspendedInThisCycle(c) ==
    /\ c.name_age \in Keys
    /\ store[c.name_age].suspended
    /\ ~c.start_record.suspended

\* C15 as stated: the record becomes suspended only in a cycle whose
\* Analyzer returned a contact, and a cycle that starts on a suspended
\* contact calls no Writer, returns no message and writes nothing back with
\* not_to_rise unset.
C15_SuspensionIsTerminal ==
    \A p \in Procs :
        LET c == cyc[p] IN
        /\ SuspendedInThisCycle(c) => OnContactPath(c)
        /\ c.start_record.suspended =>
                /\ c.attempts = 0
                /\ c.ret = Nothing
                /\ \A i \in DOMAIN c.upserts : c.upserts[i].not_to_rise

\* C15 amended: the record becomes suspended only at the end of a cycle
\* whose Analyzer returned a contact, and upsert_record is called with
\* not_to_rise=True in such cycles only. respond_to_girl never reads the
\* flag, so a later cycle for the same contact runs like any other (Writer
\* call, message returned, upsert_record with the default not_to_rise).
C15_SuspendedOnlyByContact ==
    \A p \in Procs :
        LET c == cyc[p] IN
        /\ SuspendedInThisCycle(c) => (OnContactPath(c) /\ c.pc = "done")
        /\ \A i \in DOMAIN c.upserts : c.upserts[i].not_to_rise = OnContactPath(c)

\* a cycle that began on a suspended contact called the Writer, wrote a
\* summary with not_to_rise unset and returned a message
C15_Witness ==
    \E p \in Procs :
        /\ cyc[p].start_record.suspended
        /\ cyc[p].pc = "done"
        /\ cyc[p].attempts >= 1
        /\ cyc[p].ret # Nothing
        /\ Len(cyc[p].upserts) = 1
        /\ ~cyc[p].upserts[1].not_to_rise

\* C16: invoke_chain never hands back, as its result, a Writer reply that
\* lacks the message field; such a reply is a failure inside the retry
\* loop, so the cycle never dies on the missing field outside of it.
C16_WriterShapeEnforced ==
    \A p \in Procs :
        LET c == cyc[p] IN
        /\ c.writer_output # Nothing => "message" \in DOMAIN c.writer_output[1]
        /\ c.error # "KeyError"

\* how many more steps the cycle can take at most
StepsLeft(c) ==
    CASE c.pc = "analyze"   -> 12
      [] c.pc = "commander" -> 10
      [] c.pc = "rules"     -> 9
      [] c.pc = "writer"    -> 4 + (MaxAttempts - c.attempts)
      [] c.pc = "written"   -> 3
      [] c.pc = "refresh"   -> 2
      [] c.pc = "persist"   -> 1
      [] c.pc = "hook"      -> 3
      [] c.pc = "push"      -> 2
      [] c.pc = "suspend"   -> 1
      [] OTHER              -> 0

C17_Counts ==
    \A p \in Procs :
        LET c == cyc[p] IN
        /\ Len(c.analyzer_args) <= 2
        /\ c.commander_calls <= 1
        /\ c.rule_lookups <= Len(c.tags)
        /\ c.attempts <= 3
        /\ Len(c.writer_args) = c.attempts
        /\ \A i \in DOMAIN c.writer_args : c.writer_args[i] = c.writer_args[1]
        /\ (c.pc = "writer" /\ c.attempts >= 1) =>
                /\ Len(c.analyzer_args) = 1
                /\ c.commander_calls = 1
                /\ c.rule_lookups = Len(c.tags)
                /\ c.upserts = <<>>
                /\ store[c.name_age] = c.start_record

C17_StepsRunOut ==
    \A p \in Procs :
        (cyc'[p] # cyc[p] /\ cyc'[p].pc # "analyze") =>
            /\ StepsLeft(cyc'[p]) < StepsLeft(cyc[p])
            /\ StepsLeft(cyc'[p]) >= 0

\* C17: a Writer retry repeats only the Writer call, with the same
\* arguments: while the retries run there is still one Analyzer call, one
\* Commander call, one rule lookup per tag and nothing persisted. A cycle
\* makes at most 2 Analyzer calls, 1 Commander call, one rule lookup per
\* tag and 3 Writer attempts, and every step of a cycle brings it nearer
\* to its end, so it terminates once each external call returns or raises.
C17_BoundedCycle == []C17_Counts /\ [][C17_StepsRunOut]_vars

\* a cycle that needed all three Writer attempts and a refresh, and ended
C17_Witness ==
    \E p \in Procs :
        /\ cyc[p].pc = "done"
        /\ cyc[p].attempts = 3
        /\ Len(cyc[p].analyzer_args) = 2
        /\ cyc[p].rule_lookups = 2

\* C18: on the contact-exit path the notifications come before the record
\* is marked: by the time upsert_record is called the webhook (if
\* configured) and the push have been sent, and when the webhook call or
\* the push call raises, upsert_record was never called, the record is as
\* it was when the cycle began, and the cycle raises without a value.
C18_NotifyBeforeSuspend ==
    \A p \in Procs :
        LET c == cyc[p] IN
        /\ (OnContactPath(c) /\ c.upserts # <<>>) =>
                /\ Len(c.push_calls) = 1
                /\ notifications_hook # None => Len(c.hook_calls) = 1
        /\ c.error \in {"RequestException", "PushError", "NameError"} =>
                /\ c.pc = "raised"
                /\ OnContactPath(c)
                /\ c.upserts = <<>>
                /\ store[c.name_age] = c.start_record
                /\ c.ret = Nothing

\* the webhook was sent, then the push raised: nothing was written and the
\* contact is still not suspended
C18_Witness ==
    \E p \in Procs :
        /\ cyc[p].pc = "raised"
        /\ cyc[p].error = "PushError"
        /\ Len(cyc[p].hook_calls) = 1
        /\ cyc[p].upserts = <<>>
        /\ ~store[cyc[p].name_age].suspended

====
